---- MODULE Spec2Model ----
(***************************************************************************)
(* Model of setupMockIndexedDB (MockIndexedDB): the in-memory database     *)
(* registry, object stores kept as insertion-ordered Maps, the             *)
(* auto-increment counters, transactions, requests, cursors, and the       *)
(* setTimeout(0) queue through which every notification is delivered.      *)
(*                                                                         *)
(* JavaScript values are modelled as follows.  A key is a number; the      *)
(* value `undefined` (a missing argument, a missing property) is Undefined.*)
(* A stored value is an object with the properties id and email, a         *)
(* property that is absent reading as Undefined.  A Map is the sequence of *)
(* its entries in insertion order.                                         *)
(***************************************************************************)
EXTENDS Integers, Sequences, FiniteSets, TLC

\* ---------------------------------------------------------------- bounds
MaxKey == 2
MaxEmail == 1
MaxVersion == 2
MaxCalls == 5
\* the calls a test script may make once it holds a cursor: one more, for a
\* write and a move of the cursor after openCursor
MaxCursorCalls == 6
\* the keys met by cursors: wide enough for a gap between two keys of a store
MaxCursorKey == 3
MaxDates == 2

\* ------------------------------------------------------------ JS values
Undefined == 0

\* an optional `count?: number` argument that was not given
NoLimit == -1

\* "users" is also the name of a store: cursor.delete and cursor.update look
\* the database up under the name of the cursor's store (lines 344, 352)
DbNames == {"shop", "users"}
StoreNames == {"users", "orders"}
IndexNames == {"email"}
NullPath == "null"
Props == {"id", "email"}

\* the keys that are numbers
Keys == 1..MaxKey

\* the keys that are objects: each is the result of one evaluation of
\* `new Date(0)`, named by a number above every number key. Map (has, get, set,
\* delete) and === compare objects by identity, so two of them are different
\* keys to the code although they hold the same time; a binary or an array key
\* is an object in the same way
DateKeys == {100 + n : n \in 1..MaxDates}

Values == [id : 0..MaxKey, email : 0..MaxEmail]

\* value[path]: a property read; an absent property reads as undefined
GetProp(value, path) == IF path \in Props THEN value[path] ELSE Undefined

\* `path in value`
HasProp(value, path) == path \in Props /\ value[path] # Undefined

\* value[path] = k
SetProp(value, path, k) == IF path \in Props THEN [value EXCEPT ![path] = k] ELSE value

\* ------------------------------------------------ Map<IDBValidKey, unknown>
Entry(k, v) == [k |-> k, v |-> v]

MapIndex(m, k) ==
  IF \E i \in DOMAIN m : m[i].k = k
  THEN CHOOSE i \in DOMAIN m : m[i].k = k /\ \A j \in 1..(i - 1) : m[j].k # k
  ELSE 0

MapHas(m, k) == MapIndex(m, k) # 0

MapGetOr(m, k, dflt) == IF MapHas(m, k) THEN m[MapIndex(m, k)].v ELSE dflt

\* Map.prototype.set: an existing key keeps its place, a new key goes last
MapSet(m, k, v) ==
  IF MapHas(m, k)
  THEN [m EXCEPT ![MapIndex(m, k)] = Entry(k, v)]
  ELSE Append(m, Entry(k, v))

MapDelete(m, k) == SelectSeq(m, LAMBDA e : e.k # k)

MapKeys(m) == [i \in DOMAIN m |-> m[i].k]

MapKeySet(m) == {m[i].k : i \in DOMAIN m}

\* ------------------------------------------------------- database records
\* keyPath: string | string[] of an index (line 368): the names of the path and
\* whether it was given as an array
StringPath(name) == [isArray |-> FALSE, names |-> <<name>>]

ArrayPath(names) == [isArray |-> TRUE, names |-> names]

NoIndex ==
  [present |-> FALSE, keyPath |-> StringPath(NullPath), unique |-> FALSE, multiEntry |-> FALSE]

NoSchema ==
  [present |-> FALSE, keyPath |-> NullPath, autoIncrement |-> FALSE,
   indexes |-> [x \in IndexNames |-> NoIndex]]

NoStore == [present |-> FALSE, data |-> <<>>]

\* object: which object of the registry this is (the number of the call that
\* created it), for the references mockOpen keeps to it
NoDb ==
  [exists |-> FALSE, version |-> 0, object |-> 0,
   stores |-> [s \in StoreNames |-> NoStore],
   storeSchemas |-> [s \in StoreNames |-> NoSchema]]

VARIABLES
  databases,              \* dbName -> { version, stores, storeSchemas }
  autoIncrementCounters,  \* `${dbName}:${storeName}` -> number
  conns,                  \* the MockIDBDatabase objects handed out: (name, version)
  txs,                    \* the MockIDBTransaction objects, in creation order
  reqs,                   \* the MockIDBRequest objects, in creation order
  timers,                 \* the setTimeout(..., 0) queue, first in first out
  cursors,                \* the MockIDBCursorWithValue objects
  frame,                  \* the user code that is running, or idle between turns
  turn,                   \* number of the current turn of the event loop
  log,                    \* the handler calls made so far
  generated,              \* the keys getAutoIncrementKey has returned since the counters were last cleared
  last,                   \* the last call and what it returned
  calls                   \* number of calls the test has made

vars ==
  <<databases, autoIncrementCounters, conns, txs, reqs, timers, cursors,
    frame, turn, log, generated, last, calls>>

\* ---------------------------------------------------------- the event loop
\* user code runs during the script that starts the test and inside handlers
Running == frame.kind # "idle"

\* one more call made by the user code that is running
Called ==
  /\ Running
  /\ calls < (IF cursors # <<>> THEN MaxCursorCalls ELSE MaxCalls)
  /\ calls' = calls + 1

Idle == [kind |-> "idle", req |-> 0]
InHandler == [kind |-> "handler", req |-> 0]

\* setTimeout(callback, 0): callbacks with the same delay run in the order set
ScheduleFirst(q, timer) == <<timer>> \o q

Schedule(q, timer) == Append(q, timer)

Timer(kind, id) == [kind |-> kind, id |-> id]

\* a handler call; oldVersion and newVersion are those of an upgradeneeded event
Event(ev, id, now) == [ev |-> ev, id |-> id, fired |-> now, oldVersion |-> 0, newVersion |-> 0]

Notified(ev, id, now) == Append(log, Event(ev, id, now))

\* the stores, their schemas and their indexes
Catalog(db) ==
  [stores |-> {s \in StoreNames : db.stores[s].present}, storeSchemas |-> db.storeSchemas]

\* a DatabaseSchema with no store (lines 113-129). stores is the array
\* schema.stores: a sequence of StoreSchema records [name, keyPath,
\* autoIncrement, indexes, data], in which a name may come more than once
NoSeed == [name |-> "", version |-> 0, stores |-> <<>>]

\* the summary of a call made now, before its details are filled in: inKey and
\* inVal are the arguments, key and val what they were resolved to, pre and
\* catalog the rows and the catalog before the call, during the code making it,
\* cursor the cursor opened or moved, wasIndex and wasInRange its currentIndex
\* and whether it was on an entry before the move, schema the argument of
\* seedDatabase, res and vals the keys and the values of the result. Every call
\* that names a database records catalog, the catalog of no database otherwise
NoLast ==
  [op |-> "none", db |-> "", store |-> "", key |-> Undefined, err |-> "none",
   pre |-> <<>>, res |-> <<>>, version |-> 0, existed |-> FALSE, tx |-> 0,
   found |-> FALSE, val |-> [id |-> Undefined, email |-> Undefined], limit |-> NoLimit,
   inKey |-> Undefined, inVal |-> [id |-> Undefined, email |-> Undefined],
   catalog |-> Catalog(NoDb), during |-> frame.kind,
   cursor |-> 0, wasIndex |-> 0, wasInRange |-> FALSE, schema |-> NoSeed,
   vals |-> <<>>]

\* ------------------------------------------------------ getAutoIncrementKey
CounterOf(counters, dbName, storeName) == counters[<<dbName, storeName>>]

NextAutoIncrementKeySame(current) == current

NextAutoIncrementKey(current) == current + 1

\* ---------------------------------------------------------- createMockRequest
\* existingDb: the registry object an open request holds, with the version it
\* has now; versionBefore: the stored version when open was called (0: none)
\* by: the handler call (its place in log) from inside which the request was
\* made, 0 when the test script made it
Request(kind, tx, err, ons, one) ==
  [kind |-> kind, tx |-> tx, err |-> err, born |-> turn,
   onsuccess |-> ons, onerror |-> one,
   onupgradeneeded |-> FALSE, needsUpgrade |-> FALSE, db |-> "", version |-> 0,
   existingDb |-> [object |-> 0, version |-> 0], versionBefore |-> 0, threw |-> FALSE,
   by |-> IF frame.kind = "script" THEN 0 ELSE Len(log)]

\* createMockRequest sets the success timer; the NotFoundError and ConstraintError
\* paths of add set an error timer after it
IssueRequest(tx, err, errTimer, ons, one) ==
  LET id == Len(reqs) + 1
      q == Schedule(timers, Timer("success", id))
  IN /\ reqs' = Append(reqs, Request("op", tx, err, ons, one))
     /\ timers' = IF errTimer THEN Schedule(q, Timer("error", id)) ELSE q

\* ------------------------------------------------------- createMockTransaction
\* snapshot: the rows of the database's stores when the transaction is created,
\* kept to say what abort() would have to restore; the code keeps no such copy
\* abortedAt, abortedReqs: the number of handler calls made and of requests
\* created when abort() was first called
Transaction(dbName, scope, mode, onc, ona, now, stores) ==
  [db |-> dbName, scope |-> scope, mode |-> mode, error |-> FALSE, born |-> now,
   oncomplete |-> onc, onabort |-> ona, snapshot |-> stores, abortedAt |-> 0,
   abortedReqs |-> 0]

\* ------------------------------------------------------------------ mockOpen
\* line 875 writes the version into the object that earlier open requests hold
\* as their existingDb: they see the new version when their callback runs
Upgraded(requests, existingDb, needsUpgrade, version) ==
  [r \in DOMAIN requests |->
     IF /\ existingDb.exists /\ needsUpgrade
        /\ requests[r].kind = "open"
        /\ requests[r].existingDb.object = existingDb.object
     THEN [requests[r] EXCEPT !.existingDb.version = version]
     ELSE requests[r]]

Open(name, version, onupg, ons) ==
  LET existingDb == databases[name]
      needsUpgrade == ~existingDb.exists \/ existingDb.version < version
      id == Len(reqs) + 1
  IN /\ Called
     /\ databases' =
          IF ~existingDb.exists
          THEN [databases EXCEPT ![name] = [NoDb EXCEPT !.exists = TRUE, !.version = version,
                                                        !.object = calls + 1]]
          ELSE IF needsUpgrade
               THEN [databases EXCEPT ![name].version = version]
               ELSE databases
     /\ conns' = conns \cup {[name |-> name, version |-> version]}
     /\ reqs' = Append(Upgraded(reqs, existingDb, needsUpgrade, version),
          [Request("open", 0, "none", ons, FALSE) EXCEPT
             !.onupgradeneeded = onupg, !.needsUpgrade = needsUpgrade,
             !.db = name, !.version = version,
             !.versionBefore = IF existingDb.exists THEN existingDb.version ELSE 0,
             !.existingDb = IF existingDb.exists
                            THEN [object |-> existingDb.object,
                                  version |-> IF needsUpgrade THEN version
                                              ELSE existingDb.version]
                            ELSE [object |-> 0, version |-> 0]])
     /\ timers' = Schedule(timers, Timer("open", id))
     /\ last' = [NoLast EXCEPT !.op = "open", !.db = name, !.key = version,
                               !.catalog = Catalog(existingDb),
                               !.version = existingDb.version,
                               !.existed = existingDb.exists]
     /\ UNCHANGED <<autoIncrementCounters, txs, cursors, frame, turn, log, generated>>

\* ------------------------------------------- MockIDBDatabase.createObjectStore
CreateObjectStore(conn, storeName, keyPath, autoIncrement, onc) ==
  LET dbData == databases[conn.name]
  IN /\ Called
     /\ databases' =
          IF dbData.exists
          THEN [databases EXCEPT
                  ![conn.name].stores[storeName].present = TRUE,
                  ![conn.name].storeSchemas[storeName] =
                     [NoSchema EXCEPT !.present = TRUE, !.keyPath = keyPath,
                                      !.autoIncrement = autoIncrement]]
          ELSE databases
     /\ txs' = Append(txs, Transaction(conn.name, {storeName}, "versionchange", onc, FALSE, turn,
                                      databases'[conn.name].stores))
     /\ timers' = Schedule(timers, Timer("auto", Len(txs) + 1))
     /\ last' = [NoLast EXCEPT !.op = "createObjectStore", !.db = conn.name, !.store = storeName,
                               !.existed = dbData.exists, !.tx = Len(txs) + 1,
                               !.catalog = Catalog(dbData)]
     /\ UNCHANGED <<autoIncrementCounters, conns, reqs, cursors, frame, turn, log, generated>>

\* ------------------------------------------------- MockIDBDatabase.transaction
CreateTransaction(conn, names, mode, onc, ona) ==
  /\ Called
  /\ txs' = Append(txs, Transaction(conn.name, names, mode, onc, ona, turn,
                                      databases[conn.name].stores))
  /\ timers' = Schedule(timers, Timer("auto", Len(txs) + 1))
  /\ last' = [NoLast EXCEPT !.op = "transaction", !.db = conn.name,
                            !.catalog = Catalog(databases[conn.name])]
  /\ UNCHANGED <<databases, autoIncrementCounters, conns, reqs, cursors, frame, turn,
                 log, generated>>

\* --------------------------------------------- MockIDBTransaction.commit / abort
Commit(t) ==
  /\ Called
  /\ UNCHANGED txs
  /\ timers' = Schedule(timers, Timer("commit", t))
  /\ last' = [NoLast EXCEPT !.op = "commit", !.db = txs[t].db, !.key = t,
                            !.catalog = Catalog(databases[txs[t].db])]
  /\ UNCHANGED <<databases, autoIncrementCounters, conns, reqs, cursors, frame, turn,
                 log, generated>>

Abort(t) ==
  /\ Called
  /\ txs' = [txs EXCEPT ![t].error = TRUE,
                         ![t].abortedAt = IF txs[t].error THEN @ ELSE Len(log),
                         ![t].abortedReqs = IF txs[t].error THEN @ ELSE Len(reqs)]
  /\ timers' = Schedule(timers, Timer("abort", t))
  /\ last' = [NoLast EXCEPT !.op = "abort", !.db = txs[t].db, !.key = t,
                            !.catalog = Catalog(databases[txs[t].db])]
  /\ UNCHANGED <<databases, autoIncrementCounters, conns, reqs, cursors, frame, turn,
                 log, generated>>

\* ------------------------------------------------ createMockObjectStore: keys
\* add, lines 539-553: explicit key, else auto-increment, else the key path
ResolveAddKey(keyPath, autoIncrement, value, key, current) ==
  IF key # Undefined
  THEN [ok |-> TRUE, key |-> key, value |-> value, gen |-> FALSE]
  ELSE IF autoIncrement
       THEN [ok |-> TRUE, key |-> NextAutoIncrementKey(current),
             value |-> IF keyPath # NullPath
                       THEN SetProp(value, keyPath, NextAutoIncrementKey(current))
                       ELSE value,
             gen |-> TRUE]
       ELSE IF keyPath # NullPath
            THEN [ok |-> TRUE, key |-> GetProp(value, keyPath), value |-> value, gen |-> FALSE]
            ELSE [ok |-> FALSE, key |-> Undefined, value |-> value, gen |-> FALSE]

\* put, lines 585-599: the auto-increment branch also asks !storeData.has(key)
ResolvePutKey(keyPath, autoIncrement, storeData, value, key, current) ==
  IF key # Undefined
  THEN [ok |-> TRUE, key |-> key, value |-> value, gen |-> FALSE]
  ELSE IF autoIncrement /\ ~MapHas(storeData, key)
       THEN [ok |-> TRUE, key |-> NextAutoIncrementKey(current),
             value |-> IF keyPath # NullPath
                       THEN SetProp(value, keyPath, NextAutoIncrementKey(current))
                       ELSE value,
             gen |-> TRUE]
       ELSE IF keyPath # NullPath
            THEN [ok |-> TRUE, key |-> GetProp(value, keyPath), value |-> value, gen |-> FALSE]
            ELSE [ok |-> FALSE, key |-> Undefined, value |-> value, gen |-> FALSE]

\* the rows of db.stores.get(name), none when the store is missing
DataOf(db, storeName) == IF db.stores[storeName].present THEN db.stores[storeName].data ELSE <<>>

WithDataLater(dbName, storeName, data) == databases

WithData(dbName, storeName, data) ==
  [databases EXCEPT ![dbName].stores[storeName] = [present |-> TRUE, data |-> data]]

Bump(dbName, storeName, r) ==
  IF r.gen
  THEN [autoIncrementCounters EXCEPT ![<<dbName, storeName>>] = r.key]
  ELSE autoIncrementCounters

Generated(dbName, storeName, r) ==
  IF r.gen
  THEN Append(generated, [db |-> dbName, store |-> storeName, key |-> r.key])
  ELSE generated

\* transaction.objectStore(name): throws unless name is in the scope
InScope(t, storeName) == t \in DOMAIN txs /\ storeName \in txs[t].scope

\* the call transaction.objectStore(name) on its own: it throws NotFoundError
\* for a name outside the scope and returns a store handle otherwise. The store
\* operations below are the chain transaction.objectStore(name).op(...), which
\* gets no further than objectStore when the name is outside the scope.
ObjectStore(t, storeName) ==
  /\ Called
  /\ t \in DOMAIN txs
  /\ last' = IF InScope(t, storeName)
             THEN [NoLast EXCEPT !.op = "objectStore", !.db = txs[t].db, !.store = storeName,
                                 !.tx = t, !.found = TRUE]
             ELSE [NoLast EXCEPT !.op = "objectStore", !.db = txs[t].db, !.store = storeName,
                                 !.tx = t, !.err = "NotFoundError"]
  /\ UNCHANGED <<databases, autoIncrementCounters, conns, txs, reqs, timers, cursors, frame,
                 turn, log, generated>>

\* ------------------------------------------------------ MockIDBObjectStore.get
\* store.get(key), lines 604-610: the request's result is storeData.get(key)
Get(t, storeName, key, ons) ==
  LET dbName == txs[t].db
      db == databases[dbName]
      storeData == DataOf(db, storeName)
  IN /\ Called
     /\ InScope(t, storeName)
     /\ IssueRequest(t, "none", FALSE, ons, FALSE)
     /\ last' = [NoLast EXCEPT !.op = "get", !.db = dbName, !.store = storeName,
                               !.tx = t, !.key = key, !.inKey = key, !.pre = storeData,
                               !.existed = db.exists, !.catalog = Catalog(db),
                               !.found = MapHas(storeData, key),
                               !.val = MapGetOr(storeData, key, NoLast.val)]
     /\ UNCHANGED <<databases, autoIncrementCounters, conns, txs, cursors, frame, turn, log,
                    generated>>

\* results.slice(0, count)
Slice(q, limit) == IF limit = NoLimit \/ limit >= Len(q) THEN q ELSE SubSeq(q, 1, limit)

MapValues(m) == [i \in DOMAIN m |-> m[i].v]

\* store.getAll(query, count), getAllKeys(query, count), getKey(key), count(key):
\* lines 611-641 and 667-673. getAll, getAllKeys and count do not read their
\* query or key; a missing database or store gives the empty result
Read(t, storeName, method, key, limit, ons) ==
  LET dbName == txs[t].db
      db == databases[dbName]
      storeData == DataOf(db, storeName)
      call == [NoLast EXCEPT !.op = method, !.db = dbName, !.store = storeName,
                             !.tx = t, !.key = key, !.inKey = key, !.limit = limit,
                             !.pre = storeData, !.existed = db.exists,
                             !.catalog = Catalog(db)]
  IN /\ Called
     /\ InScope(t, storeName)
     /\ IssueRequest(t, "none", FALSE, ons, FALSE)
     /\ last' =
          CASE method = "getAll" ->
                 [call EXCEPT !.vals = Slice(MapValues(storeData), limit)]
            [] method = "getAllKeys" ->
                 [call EXCEPT !.res = Slice(MapKeys(storeData), limit)]
            [] method = "getKey" ->
                 IF MapHas(storeData, key)
                 THEN [call EXCEPT !.found = TRUE, !.res = <<key>>]
                 ELSE call
            [] method = "count" ->
                 [call EXCEPT !.res = <<Len(storeData)>>]
     /\ UNCHANGED <<databases, autoIncrementCounters, conns, txs, cursors, frame, turn, log,
                    generated>>

\* ------------------------------------------------------ MockIDBObjectStore.add
Add(t, storeName, value, key, ons, one) ==
  LET dbName == txs[t].db
      db == databases[dbName]
      schema == db.storeSchemas[storeName]
      storeData == DataOf(db, storeName)
      current == CounterOf(autoIncrementCounters, dbName, storeName)
      r == ResolveAddKey(schema.keyPath, schema.autoIncrement, value, key, current)
      call == [NoLast EXCEPT !.op = "add", !.db = dbName, !.store = storeName,
                             !.pre = storeData, !.tx = t, !.existed = db.exists,
                             !.found = db.exists /\ r.ok, !.key = r.key, !.val = r.value,
                             !.inKey = key, !.inVal = value, !.catalog = Catalog(db)]
  IN /\ Called
     /\ InScope(t, storeName)
     /\ IF ~db.exists
        THEN /\ IssueRequest(t, "NotFoundError", TRUE, ons, one)
             /\ last' = [call EXCEPT !.err = "NotFoundError"]
             /\ UNCHANGED <<databases, autoIncrementCounters, generated>>
        ELSE IF ~r.ok
        THEN /\ IssueRequest(t, "DataError", FALSE, ons, one)
             /\ databases' = WithData(dbName, storeName, storeData)
             /\ last' = [call EXCEPT !.err = "DataError"]
             /\ UNCHANGED <<autoIncrementCounters, generated>>
        ELSE IF MapHas(storeData, r.key)
        THEN /\ IssueRequest(t, "ConstraintError", TRUE, ons, one)
             /\ databases' = WithData(dbName, storeName, storeData)
             /\ autoIncrementCounters' = Bump(dbName, storeName, r)
             /\ generated' = Generated(dbName, storeName, r)
             /\ last' = [call EXCEPT !.err = "ConstraintError"]
        ELSE /\ IssueRequest(t, "none", FALSE, ons, one)
             /\ databases' = WithData(dbName, storeName, MapSet(storeData, r.key, r.value))
             /\ autoIncrementCounters' = Bump(dbName, storeName, r)
             /\ generated' = Generated(dbName, storeName, r)
             /\ last' = [call EXCEPT !.res = <<r.key>>]
     /\ UNCHANGED <<conns, txs, cursors, frame, turn, log>>

\* ------------------------------------------------------ MockIDBObjectStore.put
Put(t, storeName, value, key, ons, one) ==
  LET dbName == txs[t].db
      db == databases[dbName]
      schema == db.storeSchemas[storeName]
      storeData == DataOf(db, storeName)
      current == CounterOf(autoIncrementCounters, dbName, storeName)
      r == ResolvePutKey(schema.keyPath, schema.autoIncrement, storeData, value, key, current)
      call == [NoLast EXCEPT !.op = "put", !.db = dbName, !.store = storeName,
                             !.pre = storeData, !.tx = t, !.existed = db.exists,
                             !.found = db.exists /\ r.ok, !.key = r.key, !.val = r.value,
                             !.inKey = key, !.inVal = value, !.catalog = Catalog(db)]
  IN /\ Called
     /\ InScope(t, storeName)
     /\ IF ~db.exists
        THEN /\ IssueRequest(t, "NotFoundError", FALSE, ons, one)
             /\ last' = [call EXCEPT !.err = "NotFoundError"]
             /\ UNCHANGED <<databases, autoIncrementCounters, generated>>
        ELSE IF ~r.ok
        THEN /\ IssueRequest(t, "DataError", FALSE, ons, one)
             /\ databases' = WithData(dbName, storeName, storeData)
             /\ last' = [call EXCEPT !.err = "DataError"]
             /\ UNCHANGED <<autoIncrementCounters, generated>>
        ELSE /\ IssueRequest(t, "none", FALSE, ons, one)
             /\ databases' = WithData(dbName, storeName, MapSet(storeData, r.key, r.value))
             /\ autoIncrementCounters' = Bump(dbName, storeName, r)
             /\ generated' = Generated(dbName, storeName, r)
             /\ last' = [call EXCEPT !.res = <<r.key>>]
     /\ UNCHANGED <<conns, txs, cursors, frame, turn, log>>

\* --------------------------------------------- MockIDBObjectStore.delete / clear
\* delete(key); with isRange the argument is the key range object
\* {lower: key, upper: key}, and every row is removed whatever its bounds
Delete(t, storeName, key, isRange, ons) ==
  LET dbName == txs[t].db
      db == databases[dbName]
      storeData == DataOf(db, storeName)
  IN /\ Called
     /\ InScope(t, storeName)
     /\ IssueRequest(t, "none", FALSE, ons, FALSE)
     /\ databases' =
          IF db.exists /\ db.stores[storeName].present
          THEN WithData(dbName, storeName, IF isRange THEN <<>> ELSE MapDelete(storeData, key))
          ELSE databases
     /\ last' = [NoLast EXCEPT !.op = "delete", !.db = dbName, !.store = storeName,
                               !.key = key, !.pre = storeData, !.tx = t,
                               !.existed = db.exists, !.inKey = key,
                               !.catalog = Catalog(db)]
     /\ UNCHANGED <<autoIncrementCounters, conns, txs, cursors, frame, turn, log, generated>>

Clear(t, storeName, ons) ==
  LET dbName == txs[t].db
      db == databases[dbName]
      storeData == DataOf(db, storeName)
  IN /\ Called
     /\ InScope(t, storeName)
     /\ IssueRequest(t, "none", FALSE, ons, FALSE)
     /\ databases' =
          IF db.exists /\ db.stores[storeName].present
          THEN WithData(dbName, storeName, <<>>)
          ELSE databases
     /\ last' = [NoLast EXCEPT !.op = "clear", !.db = dbName, !.store = storeName,
                               !.pre = storeData, !.tx = t, !.existed = db.exists,
                               !.catalog = Catalog(db)]
     /\ UNCHANGED <<autoIncrementCounters, conns, txs, cursors, frame, turn, log, generated>>

\* ------------------------------------------------------------------ seedDatabase
\* lines 1021-1037: the rows of one store, keys resolved as add resolves them, but
\* with no check for a key that is already there
RECURSIVE SeedRows(_, _, _, _)
SeedRows(items, keyPath, autoIncrement, acc) ==
  IF items = <<>>
  THEN acc
  ELSE LET item == Head(items)
           r == ResolveAddKey(keyPath, autoIncrement, item.value, item.key, acc.counter)
       IN SeedRows(Tail(items), keyPath, autoIncrement,
            IF r.ok
            THEN [data |-> MapSet(acc.data, r.key, r.value),
                  counter |-> IF r.gen THEN r.key ELSE acc.counter,
                  gens |-> IF r.gen THEN Append(acc.gens, r.key) ELSE acc.gens]
            ELSE acc)

\* the loop of lines 1001-1041 over the array schema.stores: each element makes
\* a new Map for its name (a later element of the same name replaces the Map
\* and the schema of an earlier one), and getAutoIncrementKey goes on from the
\* counter the elements before it left
RECURSIVE SeedStores(_, _, _)
SeedStores(dbName, storeSchemas, acc) ==
  IF storeSchemas = <<>>
  THEN acc
  ELSE LET storeSchema == Head(storeSchemas)
           n == storeSchema.name
           r == SeedRows(storeSchema.data, storeSchema.keyPath, storeSchema.autoIncrement,
                         [data |-> <<>>,
                          counter |-> CounterOf(acc.counters, dbName, n),
                          gens |-> <<>>])
       IN SeedStores(dbName, Tail(storeSchemas),
            [stores |-> [acc.stores EXCEPT ![n] = [present |-> TRUE, data |-> r.data]],
             storeSchemas |-> [acc.storeSchemas EXCEPT ![n] =
               [present |-> TRUE, keyPath |-> storeSchema.keyPath,
                autoIncrement |-> storeSchema.autoIncrement,
                indexes |-> storeSchema.indexes]],
             counters |-> [acc.counters EXCEPT ![<<dbName, n>>] = r.counter],
             generated |-> acc.generated \o
               [i \in DOMAIN r.gens |-> [db |-> dbName, store |-> n, key |-> r.gens[i]]]])

Seeded(schema) ==
  SeedStores(schema.name, schema.stores,
             [stores |-> [n \in StoreNames |-> NoStore],
              storeSchemas |-> [n \in StoreNames |-> NoSchema],
              counters |-> autoIncrementCounters,
              generated |-> generated])

SeedDatabase(schema) ==
  /\ Called
  /\ databases' = [databases EXCEPT ![schema.name] =
       [exists |-> TRUE, version |-> schema.version, object |-> calls + 1,
        stores |-> Seeded(schema).stores,
        storeSchemas |-> Seeded(schema).storeSchemas]]
  /\ autoIncrementCounters' = Seeded(schema).counters
  /\ generated' = Seeded(schema).generated
  /\ last' = [NoLast EXCEPT !.op = "seedDatabase", !.db = schema.name, !.schema = schema,
                            !.catalog = Catalog(databases[schema.name])]
  /\ UNCHANGED <<conns, txs, reqs, timers, cursors, frame, turn, log>>

\* ------------------------------------------------------------- clearAllDatabases
ClearAllDatabases ==
  /\ Called
  /\ databases' = [d \in DbNames |-> NoDb]
  /\ autoIncrementCounters' = [c \in DOMAIN autoIncrementCounters |-> 0]
  /\ generated' = <<>>
  /\ last' = [NoLast EXCEPT !.op = "clearAllDatabases"]
  /\ UNCHANGED <<conns, txs, reqs, timers, cursors, frame, turn, log>>

\* ------------------------------------------------------------ mockDeleteDatabase
WithoutDatabaseKeepsStores(name) == [databases EXCEPT ![name].exists = FALSE]

\* databases.delete(name): line 921
WithoutDatabase(name) == [databases EXCEPT ![name] = NoDb]

\* mockDatabases, lines 950-955: the name and version of every registered database
ListDatabases ==
  {[name |-> d, version |-> databases[d].version] : d \in {n \in DbNames : databases[n].exists}}

DeleteDatabase(name, ons) ==
  /\ Called
  /\ databases' = WithoutDatabase(name)
  /\ reqs' = Append(reqs, [Request("deleteDatabase", 0, "none", ons, FALSE) EXCEPT !.db = name])
  /\ timers' = Schedule(timers, Timer("success", Len(reqs) + 1))
  /\ last' = [NoLast EXCEPT !.op = "deleteDatabase", !.db = name,
                            !.existed = databases[name].exists,
                            !.found = (\E n \in StoreNames :
                                         DataOf(databases[name], n) # <<>>),
                            !.catalog = Catalog(databases[name])]
  /\ UNCHANGED <<autoIncrementCounters, conns, txs, cursors, frame, turn, log, generated>>

\* ------------------------------------------- MockIDBDatabase.deleteObjectStore
DeleteObjectStore(conn, storeName) ==
  /\ Called
  /\ databases' =
       IF databases[conn.name].exists
       THEN [databases EXCEPT ![conn.name].stores[storeName] = NoStore,
                              ![conn.name].storeSchemas[storeName] = NoSchema]
       ELSE databases
  /\ last' = [NoLast EXCEPT !.op = "deleteObjectStore", !.db = conn.name, !.store = storeName,
                            !.existed = databases[conn.name].exists,
                            !.catalog = Catalog(databases[conn.name])]
  /\ UNCHANGED <<autoIncrementCounters, conns, txs, reqs, timers, cursors, frame, turn,
                 log, generated>>

\* ------------------------------------ MockIDBObjectStore.createIndex / deleteIndex
CreateIndex(t, storeName, indexName, keyPath, unique, multiEntry) ==
  LET dbName == txs[t].db
      db == databases[dbName]
  IN /\ Called
     /\ InScope(t, storeName)
     /\ databases' =
          IF db.exists /\ db.storeSchemas[storeName].present
          THEN [databases EXCEPT ![dbName].storeSchemas[storeName].indexes[indexName] =
                  [present |-> TRUE, keyPath |-> keyPath, unique |-> unique,
                   multiEntry |-> multiEntry]]
          ELSE databases
     /\ last' = [NoLast EXCEPT !.op = "createIndex", !.db = dbName, !.store = storeName, !.tx = t,
                               !.existed = db.exists, !.catalog = Catalog(db)]
     /\ UNCHANGED <<autoIncrementCounters, conns, txs, reqs, timers, cursors, frame, turn,
                    log, generated>>

DeleteIndex(t, storeName, indexName) ==
  LET dbName == txs[t].db
      db == databases[dbName]
  IN /\ Called
     /\ InScope(t, storeName)
     /\ databases' =
          IF db.exists /\ db.storeSchemas[storeName].present
          THEN [databases EXCEPT ![dbName].storeSchemas[storeName].indexes[indexName] = NoIndex]
          ELSE databases
     /\ last' = [NoLast EXCEPT !.op = "deleteIndex", !.db = dbName, !.store = storeName, !.tx = t,
                               !.existed = db.exists, !.catalog = Catalog(db)]
     /\ UNCHANGED <<autoIncrementCounters, conns, txs, reqs, timers, cursors, frame, turn,
                    log, generated>>

\* ------------------------------------------------------------- createMockIndex
\* typeof keyPath === 'string' ? keyPath : keyPath[0] (lines 385, 401, 419, 440,
\* 460): the string, or the first name of the array; the other names of an
\* array, and multiEntry, are never read
IndexKeyPath(keyPath) == Head(keyPath.names)

\* `indexKeyPath in value` and value[indexKeyPath] === key
IndexMatch(value, indexKeyPath, key) ==
  HasProp(value, indexKeyPath) /\ GetProp(value, indexKeyPath) = key

\* get / getKey: the first row, in the Map's order, whose value matches
RECURSIVE IndexFirst(_, _, _)
IndexFirst(storeData, indexKeyPath, key) ==
  IF storeData = <<>>
  THEN <<>>
  ELSE IF IndexMatch(Head(storeData).v, indexKeyPath, key)
       THEN <<Head(storeData)>>
       ELSE IndexFirst(Tail(storeData), indexKeyPath, key)

\* getAllKeys(query, count): lines 441-450; the loop stops once count results are held
RECURSIVE IndexScanKeys(_, _, _, _, _)
IndexScanKeys(storeData, indexKeyPath, query, limit, results) ==
  IF storeData = <<>>
  THEN results
  ELSE LET row == Head(storeData)
           pushed == IF query = Undefined \/ IndexMatch(row.v, indexKeyPath, query)
                     THEN Append(results, row.k)
                     ELSE results
       IN IF limit # NoLimit /\ Len(pushed) >= limit
          THEN pushed
          ELSE IndexScanKeys(Tail(storeData), indexKeyPath, query, limit, pushed)

\* getAll(query, count): lines 411-431, the same loop over the values
RECURSIVE IndexScanValues(_, _, _, _, _)
IndexScanValues(storeData, indexKeyPath, query, limit, results) ==
  IF storeData = <<>>
  THEN results
  ELSE LET row == Head(storeData)
           pushed == IF query = Undefined \/ IndexMatch(row.v, indexKeyPath, query)
                     THEN Append(results, row.v)
                     ELSE results
       IN IF limit # NoLimit /\ Len(pushed) >= limit
          THEN pushed
          ELSE IndexScanValues(Tail(storeData), indexKeyPath, query, limit, pushed)

IndexGetAll(storeData, indexKeyPath, query, limit) ==
  IndexScanValues(storeData, indexKeyPath, query, limit, <<>>)

IndexGetAllKeys(storeData, indexKeyPath, query, limit) ==
  IndexScanKeys(storeData, indexKeyPath, query, limit, <<>>)

\* count(key): lines 453-474
RECURSIVE IndexCountFrom(_, _, _)
IndexCountFrom(storeData, indexKeyPath, key) ==
  IF storeData = <<>>
  THEN 0
  ELSE (IF IndexMatch(Head(storeData).v, indexKeyPath, key) THEN 1 ELSE 0)
       + IndexCountFrom(Tail(storeData), indexKeyPath, key)

IndexCount(storeData, indexKeyPath, key) ==
  IF key = Undefined THEN Len(storeData) ELSE IndexCountFrom(storeData, indexKeyPath, key)

\* store.index(name).get / getKey / getAll / getAllKeys / count: the request
\* carries no transaction. The result of get is val, that of getKey the key in
\* res, that of getAll vals
IndexRead(t, storeName, indexName, method, key, limit, ons) ==
  LET dbName == txs[t].db
      db == databases[dbName]
      index == db.storeSchemas[storeName].indexes[indexName]
      storeData == DataOf(db, storeName)
      indexKeyPath == IndexKeyPath(index.keyPath)
      hit == IndexFirst(storeData, indexKeyPath, key)
      call == [NoLast EXCEPT !.op = method, !.db = dbName, !.store = storeName,
                             !.key = key, !.pre = storeData, !.tx = t, !.limit = limit,
                             !.existed = db.stores[storeName].present,
                             !.catalog = Catalog(db)]
  IN /\ Called
     /\ InScope(t, storeName)
     /\ db.exists /\ db.storeSchemas[storeName].present /\ index.present
     /\ IssueRequest(0, "none", FALSE, ons, FALSE)
     /\ last' =
          IF method = "index.get"
          THEN IF hit = <<>> THEN call
               ELSE [call EXCEPT !.found = TRUE, !.val = hit[1].v, !.res = <<hit[1].k>>]
          ELSE IF method = "index.getKey"
          THEN IF hit = <<>> THEN call
               ELSE [call EXCEPT !.found = TRUE, !.res = <<hit[1].k>>]
          ELSE IF method = "index.getAll"
          THEN [call EXCEPT !.vals = IndexGetAll(storeData, indexKeyPath, key, limit)]
          ELSE IF method = "index.getAllKeys"
          THEN [call EXCEPT !.res = IndexGetAllKeys(storeData, indexKeyPath, key, limit)]
          ELSE [call EXCEPT !.res = <<IndexCount(storeData, indexKeyPath, key)>>]
     /\ UNCHANGED <<databases, autoIncrementCounters, conns, txs, cursors, frame, turn, log,
                    generated>>

\* ------------------------------------------------------------ createMockCursor
Backward(direction) == direction \in {"prev", "prevunique"}

\* the cursor's key and value at currentIndex (counted from 0), undefined outside
CursorAt(c, currentIndex) ==
  IF currentIndex < 0 \/ currentIndex >= Len(c.entries)
  THEN [c EXCEPT !.currentIndex = currentIndex, !.key = Undefined,
                 !.value = [id |-> Undefined, email |-> Undefined], !.inRange = FALSE]
  ELSE [c EXCEPT !.currentIndex = currentIndex, !.key = c.entries[currentIndex + 1].k,
                 !.value = c.entries[currentIndex + 1].v, !.inRange = TRUE,
                 !.yielded = Append(c.yielded, c.entries[currentIndex + 1].k)]

CursorEntriesButLast(storeData) == SubSeq(storeData, 1, Len(storeData) - 1)

\* Array.from(storeData.entries()): the rows in the Map's insertion order
CursorEntries(storeData) == storeData

\* store.openCursor(query, direction): lines 674-683 and 285-299. query, a key
\* or undefined, is not read
OpenCursor(t, storeName, query, direction, ons) ==
  LET dbName == txs[t].db
      db == databases[dbName]
      entries == CursorEntries(DataOf(db, storeName))
      start == IF Backward(direction) THEN Len(entries) - 1 ELSE 0
      fresh == [db |-> dbName, store |-> storeName, direction |-> direction,
                entries |-> entries, currentIndex |-> start, key |-> Undefined,
                value |-> [id |-> Undefined, email |-> Undefined], inRange |-> FALSE,
                yielded |-> <<>>, plain |-> TRUE, tx |-> t]
  IN /\ Called
     /\ InScope(t, storeName)
     /\ IssueRequest(t, "none", FALSE, ons, FALSE)
     /\ cursors' =
          IF db.exists /\ db.stores[storeName].present /\ entries # <<>>
          THEN Append(cursors, CursorAt(fresh, start))
          ELSE cursors
     /\ last' = [NoLast EXCEPT !.op = "openCursor", !.db = dbName, !.store = storeName,
                               !.tx = t, !.pre = DataOf(db, storeName),
                               !.inKey = query, !.cursor = Len(cursors'),
                               !.catalog = Catalog(db),
                               !.found = (db.exists /\ db.stores[storeName].present
                                          /\ entries # <<>>)]
     /\ UNCHANGED <<databases, autoIncrementCounters, conns, txs, frame, turn, log, generated>>

\* store.index(name).openCursor(query, direction) and openKeyCursor: lines
\* 475-494. The cursor walks the rows of the store, in the Map's order, as a
\* store cursor does; its request carries no transaction; query is not read
IndexOpenCursor(t, storeName, indexName, query, direction, ons) ==
  LET dbName == txs[t].db
      db == databases[dbName]
      index == db.storeSchemas[storeName].indexes[indexName]
      entries == CursorEntries(DataOf(db, storeName))
      start == IF Backward(direction) THEN Len(entries) - 1 ELSE 0
      fresh == [db |-> dbName, store |-> storeName, direction |-> direction,
                entries |-> entries, currentIndex |-> start, key |-> Undefined,
                value |-> [id |-> Undefined, email |-> Undefined], inRange |-> FALSE,
                yielded |-> <<>>, plain |-> TRUE, tx |-> t]
      made == db.stores[storeName].present /\ entries # <<>>
  IN /\ Called
     /\ InScope(t, storeName)
     /\ db.exists /\ db.storeSchemas[storeName].present /\ index.present
     /\ IssueRequest(0, "none", FALSE, ons, FALSE)
     /\ cursors' = IF made THEN Append(cursors, CursorAt(fresh, start)) ELSE cursors
     /\ last' = [NoLast EXCEPT !.op = "index.openCursor", !.db = dbName, !.store = storeName,
                               !.tx = t, !.pre = DataOf(db, storeName),
                               !.inKey = query, !.cursor = Len(cursors'),
                               !.catalog = Catalog(db), !.found = made]
     /\ UNCHANGED <<databases, autoIncrementCounters, conns, txs, frame, turn, log, generated>>

\* cursor.continue(key?): lines 317-341
Continue(c, key) ==
  LET cur == cursors[c]
      target == IF key # Undefined
                THEN IF MapHas(cur.entries, key)
                     THEN MapIndex(cur.entries, key) - 1
                     ELSE Len(cur.entries)
                ELSE IF Backward(cur.direction)
                     THEN cur.currentIndex - 1
                     ELSE cur.currentIndex + 1
  IN /\ Called
     /\ cursors' = [cursors EXCEPT ![c] =
          [CursorAt(cur, target) EXCEPT !.plain = cur.plain /\ key = Undefined]]
     /\ last' = [NoLast EXCEPT !.op = "continue", !.key = key, !.cursor = c,
                               !.db = cur.db, !.store = cur.store,
                               !.catalog = Catalog(databases[cur.db]),
                               !.wasIndex = cur.currentIndex, !.wasInRange = cur.inRange]
     /\ UNCHANGED <<databases, autoIncrementCounters, conns, txs, reqs, timers, frame, turn,
                    log, generated>>

\* cursor.advance(count): lines 301-316
Advance(c, count) ==
  LET cur == cursors[c]
      target == IF Backward(cur.direction)
                THEN cur.currentIndex - count
                ELSE cur.currentIndex + count
  IN /\ Called
     /\ cursors' = [cursors EXCEPT ![c] =
          [CursorAt(cur, target) EXCEPT !.plain = FALSE]]
     /\ last' = [NoLast EXCEPT !.op = "advance", !.key = count, !.cursor = c,
                               !.db = cur.db, !.store = cur.store,
                               !.catalog = Catalog(databases[cur.db]),
                               !.wasIndex = cur.currentIndex, !.wasInRange = cur.inRange]
     /\ UNCHANGED <<databases, autoIncrementCounters, conns, txs, reqs, timers, frame, turn,
                    log, generated>>

\* databases.get(store.name) of cursor.delete and cursor.update: the database
\* registered under the name of the cursor's store
SourceDb(storeName) == IF storeName \in DbNames THEN databases[storeName] ELSE NoDb

\* the write of cursor.delete and cursor.update: made in the store storeName of
\* the database named storeName when both exist, and nowhere otherwise
WithSourceData(storeName, storeData) ==
  IF SourceDb(storeName).exists /\ SourceDb(storeName).stores[storeName].present
  THEN WithData(storeName, storeName, storeData)
  ELSE databases

\* cursor.delete(): lines 343-350
DeleteAtCursor(c, ons) ==
  LET cur == cursors[c]
      storeData == DataOf(SourceDb(cur.store), cur.store)
  IN /\ Called
     /\ IssueRequest(0, "none", FALSE, ons, FALSE)
     /\ databases' = WithSourceData(cur.store, MapDelete(storeData, cur.key))
     /\ last' = [NoLast EXCEPT !.op = "cursor.delete", !.db = cur.db, !.store = cur.store,
                               !.tx = cur.tx,
                               !.key = cur.key, !.found = cur.inRange, !.cursor = c,
                               !.catalog = Catalog(databases[cur.db]),
                               !.pre = DataOf(databases[cur.db], cur.store)]
     /\ UNCHANGED <<autoIncrementCounters, conns, txs, cursors, frame, turn, log, generated>>

\* cursor.update(value): lines 351-359
UpdateAtCursor(c, value, ons) ==
  LET cur == cursors[c]
      storeData == DataOf(SourceDb(cur.store), cur.store)
  IN /\ Called
     /\ IssueRequest(0, "none", FALSE, ons, FALSE)
     /\ databases' = WithSourceData(cur.store, MapSet(storeData, cur.key, value))
     /\ cursors' = [cursors EXCEPT ![c].value = value]
     /\ last' = [NoLast EXCEPT !.op = "cursor.update", !.db = cur.db, !.store = cur.store,
                               !.tx = cur.tx,
                               !.key = cur.key, !.found = cur.inRange, !.inVal = value,
                               !.res = <<cur.key>>, !.cursor = c,
                               !.catalog = Catalog(databases[cur.db]),
                               !.pre = DataOf(databases[cur.db], cur.store)]
     /\ UNCHANGED <<autoIncrementCounters, conns, txs, frame, turn, log, generated>>

\* ------------------------------------------------------- the turns of the loop
\* the running user code returns. After the upgradeneeded handler the open
\* callback goes on to call onsuccess (lines 910-914)
Return ==
  /\ Running
  /\ IF frame.kind = "upgradeneeded" /\ reqs[frame.req].onsuccess
     THEN /\ log' = Notified("success", frame.req, turn)
          /\ frame' = InHandler
     ELSE /\ frame' = Idle
          /\ UNCHANGED log
  /\ UNCHANGED <<databases, autoIncrementCounters, conns, txs, reqs, timers, cursors, turn,
                 generated, last, calls>>

\* the upgradeneeded handler raises. The callback of mockOpen calls it with no
\* try/catch (line 907): the exception leaves the callback, what follows in it
\* (the onsuccess call) is skipped, and nothing else is done about it. threw
\* records on the request that its handler raised
Throw ==
  /\ frame.kind = "upgradeneeded"
  /\ frame' = Idle
  /\ reqs' = [reqs EXCEPT ![frame.req].threw = TRUE]
  /\ UNCHANGED <<databases, autoIncrementCounters, conns, txs, timers, cursors, turn, log,
                 generated, last, calls>>

\* the callback mockOpen sets (lines 895-915), run in turn `now`: the upgrade
\* transaction is created, made the transaction of the request (line 901) and
\* onupgradeneeded called, then onsuccess
RunOpenCompletesAtOnce(id, rest, now, onc) ==
  /\ txs' = Append(txs, Transaction(reqs[id].db, {}, "versionchange", onc, FALSE, now,
                                      databases[reqs[id].db].stores))
  /\ reqs' = [reqs EXCEPT ![id].tx = Len(txs) + 1]
  /\ timers' = rest
  /\ log' = Append(Notified("upgradeneeded", id, now),
                   Event("complete", Len(txs) + 1, now))
  /\ frame' = [kind |-> "upgradeneeded", req |-> id]

RunOpen(id, rest, now, onc) ==
  IF reqs[id].needsUpgrade /\ reqs[id].onupgradeneeded
  THEN /\ txs' = Append(txs, Transaction(reqs[id].db, {}, "versionchange", onc, FALSE, now,
                                      databases[reqs[id].db].stores))
       /\ reqs' = [reqs EXCEPT ![id].tx = Len(txs) + 1]
       /\ timers' = Schedule(rest, Timer("auto", Len(txs) + 1))
       /\ log' = Append(log, [Event("upgradeneeded", id, now) EXCEPT
                                 !.oldVersion = reqs[id].existingDb.version,
                                 !.newVersion = reqs[id].version])
       /\ frame' = [kind |-> "upgradeneeded", req |-> id]
  ELSE IF reqs[id].onsuccess
       THEN /\ log' = Notified("success", id, now)
            /\ frame' = InHandler
            /\ timers' = rest
            /\ UNCHANGED <<txs, reqs>>
       ELSE /\ timers' = rest
            /\ UNCHANGED <<log, frame, txs, reqs>>

\* what the callback of the timer does when it runs, in turn `now`; onc: whether
\* the upgradeneeded handler attaches oncomplete to the upgrade transaction
RunTimer(timer, rest, now, onc) ==
  LET id == timer.id
      handler(ev) == /\ log' = Notified(ev, id, now)
                   /\ frame' = InHandler
                   /\ timers' = rest
                   /\ UNCHANGED <<txs, reqs>>
      nothing == /\ timers' = rest
                 /\ UNCHANGED <<log, frame, txs, reqs>>
  IN CASE timer.kind = "success" ->
            IF reqs[id].onsuccess THEN handler("success") ELSE nothing
       [] timer.kind = "error" ->
            IF reqs[id].onerror THEN handler("error") ELSE nothing
       [] timer.kind = "auto" ->
            IF txs[id].oncomplete /\ ~txs[id].error THEN handler("complete") ELSE nothing
       [] timer.kind = "commit" ->
            IF txs[id].oncomplete THEN handler("complete") ELSE nothing
       [] timer.kind = "abort" ->
            IF txs[id].onabort THEN handler("abort") ELSE nothing
       [] timer.kind = "open" -> RunOpen(id, rest, now, onc)

FireTimer(onc) ==
  /\ ~Running
  /\ timers # <<>>
  /\ turn' = turn + 1
  /\ RunTimer(Head(timers), Tail(timers), turn + 1, onc)
  /\ UNCHANGED <<databases, autoIncrementCounters, conns, cursors, generated, last, calls>>

\* ------------------------------------------------------------ initial state
\* setupMockIndexedDB(): no database, no counter, the test script running
Init ==
  /\ databases = [d \in DbNames |-> NoDb]
  /\ autoIncrementCounters = [c \in DbNames \X StoreNames |-> 0]
  /\ conns = {}
  /\ txs = <<>>
  /\ reqs = <<>>
  /\ timers = <<>>
  /\ cursors = <<>>
  /\ frame = [kind |-> "script", req |-> 0]
  /\ turn = 0
  /\ log = <<>>
  /\ generated = <<>>
  /\ last = NoLast
  /\ calls = 0

\* ------------------------------------------------ Spec: the notification order
\* A test that opens "shop", creates stores and transactions, writes to "users"
\* with and without handlers attached, aborts and commits, and lets the event
\* loop run; handlers issue further calls.
UserValue == [id |-> 1, email |-> Undefined]

CallOpen == Open("shop", 1, TRUE, TRUE)

CallCreateObjectStore ==
  \E conn \in conns : CreateObjectStore(conn, "users", "id", FALSE, TRUE)

CallTransaction ==
  \E conn \in conns : CreateTransaction(conn, {"users"}, "readwrite", TRUE, TRUE)

CallAdd ==
  \E t \in DOMAIN txs, key \in {Undefined, 1}, h \in BOOLEAN :
    Add(t, "users", UserValue, key, h, h)

CallCommit == \E t \in DOMAIN txs : Commit(t)

CallAbort == \E t \in DOMAIN txs : Abort(t)

Turn == FireTimer(TRUE)

Next ==
  \/ CallOpen
  \/ CallCreateObjectStore
  \/ CallTransaction
  \/ CallAdd
  \/ CallCommit
  \/ CallAbort
  \/ Return
  \/ Turn

Spec == Init /\ [][Next]_vars

\* ------------------------------------------- StoreSpec: records and indices
\* A test script that seeds "shop", opens it, takes one transaction on "users"
\* (or the one createObjectStore returns), and writes, deletes, aborts and reads
\* through it, all in one turn.
SeedItem(key, value) == [key |-> key, value |-> value]

SeedData ==
  { <<>>,
    <<SeedItem(Undefined, [id |-> 1, email |-> 1])>>,
    <<SeedItem(2, [id |-> 2, email |-> 1]), SeedItem(1, [id |-> 1, email |-> Undefined])>>,
    <<SeedItem(1, [id |-> 1, email |-> 1]), SeedItem(1, [id |-> 1, email |-> Undefined])>> }

UsersSchema(autoIncrement, unique, data) ==
  [name |-> "shop", version |-> 1,
   stores |-> <<[name |-> "users", keyPath |-> "id", autoIncrement |-> autoIncrement,
                 indexes |-> [x \in IndexNames |->
                   [present |-> TRUE, keyPath |-> StringPath("email"), unique |-> unique,
                    multiEntry |-> FALSE]],
                 data |-> data]>>]

SeedSchemas ==
  {UsersSchema(a, u, d) : a \in BOOLEAN, u \in BOOLEAN, d \in SeedData}

StoreSeed == txs = <<>> /\ \E schema \in SeedSchemas : SeedDatabase(schema)

StoreOpen == conns = {} /\ Open("shop", 1, FALSE, FALSE)

StoreCreateObjectStore ==
  /\ txs = <<>>
  /\ \E conn \in conns, keyPath \in {NullPath, "id"}, autoIncrement \in BOOLEAN :
       CreateObjectStore(conn, "users", keyPath, autoIncrement, FALSE)

StoreTransaction ==
  /\ txs = <<>>
  /\ \E conn \in conns : CreateTransaction(conn, {"users"}, "readwrite", FALSE, FALSE)

StoreCreateIndex ==
  \E t \in DOMAIN txs, unique \in BOOLEAN :
    CreateIndex(t, "users", "email", StringPath("email"), unique, FALSE)

StoreDeleteIndex == \E t \in DOMAIN txs : DeleteIndex(t, "users", "email")

StoreAdd ==
  \E t \in DOMAIN txs, value \in Values, key \in {Undefined} \cup Keys :
    Add(t, "users", value, key, FALSE, FALSE)

StorePut ==
  \E t \in DOMAIN txs, value \in Values, key \in {Undefined} \cup Keys :
    Put(t, "users", value, key, FALSE, FALSE)

StoreDelete ==
  \E t \in DOMAIN txs, key \in Keys, isRange \in BOOLEAN :
    Delete(t, "users", key, isRange, FALSE)

StoreClear == \E t \in DOMAIN txs : Clear(t, "users", FALSE)

StoreAbort == \E t \in DOMAIN txs : Abort(t)

StoreIndexRead ==
  \E t \in DOMAIN txs,
     method \in {"index.get", "index.getKey", "index.getAll", "index.getAllKeys", "index.count"},
     key \in 1..MaxEmail, limit \in {NoLimit, 1} :
    IndexRead(t, "users", "email", method, key, limit, FALSE)

StoreGet == \E t \in DOMAIN txs, key \in Keys : Get(t, "users", key, FALSE)

StoreRead ==
  \E t \in DOMAIN txs, method \in {"getAll", "getAllKeys", "getKey", "count"},
     key \in Keys, limit \in {NoLimit, 1} :
    Read(t, "users", method, key, limit, FALSE)

StoreNext ==
  \/ StoreRead
  \/ StoreSeed
  \/ StoreOpen
  \/ StoreCreateObjectStore
  \/ StoreTransaction
  \/ StoreCreateIndex
  \/ StoreDeleteIndex
  \/ StoreAdd
  \/ StorePut
  \/ StoreDelete
  \/ StoreClear
  \/ StoreAbort
  \/ StoreIndexRead
  \/ ClearAllDatabases
  \/ StoreGet

StoreSpec == Init /\ [][StoreNext]_vars

\* ------------------------------------------------- OpenSpec: opening versions
\* A test that opens "shop" at versions 1..MaxVersion, with or without handlers,
\* creates stores through the connections, deletes the database, and lets the
\* event loop run.
OpenAtVersion ==
  \E version \in 1..MaxVersion, ons \in BOOLEAN : Open("shop", version, TRUE, ons)

OpenCreateObjectStore ==
  \E conn \in conns : CreateObjectStore(conn, "orders", "id", FALSE, FALSE)

OpenDeleteObjectStore == \E conn \in conns : DeleteObjectStore(conn, "orders")

OpenDeleteDatabase == DeleteDatabase("shop", FALSE)

OpenNext ==
  \/ OpenAtVersion
  \/ OpenCreateObjectStore
  \/ OpenDeleteObjectStore
  \/ OpenDeleteDatabase
  \/ Return
  \/ FireTimer(FALSE)

OpenSpec == Init /\ [][OpenNext]_vars

\* ------------------------------------------------------ CursorSpec: cursors
\* A test script that seeds "shop", opens it, takes one transaction on "users",
\* adds and deletes rows, opens cursors in every direction and moves them.
CursorDirections == {"next", "nextunique", "prev", "prevunique"}

CursorSeedData ==
  SeedData \cup
    { <<SeedItem(1, [id |-> 1, email |-> Undefined]),
        SeedItem(MaxCursorKey, [id |-> MaxCursorKey, email |-> Undefined])>> }

CursorSeed ==
  /\ txs = <<>>
  /\ \E data \in CursorSeedData : SeedDatabase(UsersSchema(FALSE, FALSE, data))

CursorOpenDb == conns = {} /\ Open("shop", 1, FALSE, FALSE)

CursorTransaction ==
  /\ txs = <<>>
  /\ \E conn \in conns : CreateTransaction(conn, {"users"}, "readwrite", FALSE, FALSE)

CursorAdd ==
  \E t \in DOMAIN txs, key \in Keys :
    Add(t, "users", [id |-> key, email |-> Undefined], Undefined, FALSE, FALSE)

CursorDelete == \E t \in DOMAIN txs, key \in Keys : Delete(t, "users", key, FALSE, FALSE)

CursorOpenCursor ==
  \E t \in DOMAIN txs, query \in {Undefined} \cup Keys, direction \in CursorDirections :
    OpenCursor(t, "users", query, direction, FALSE)

CursorContinue ==
  \E c \in DOMAIN cursors, key \in {Undefined} \cup 1..MaxCursorKey : Continue(c, key)

CursorAdvance == \E c \in DOMAIN cursors, count \in 1..2 : Advance(c, count)

CursorPut ==
  \E t \in DOMAIN txs, key \in Keys :
    Put(t, "users", [id |-> key, email |-> Undefined], Undefined, FALSE, FALSE)

CursorClear == \E t \in DOMAIN txs : Clear(t, "users", FALSE)

CursorIndexOpenCursor ==
  \E t \in DOMAIN txs, query \in {Undefined} \cup Keys, direction \in CursorDirections :
    IndexOpenCursor(t, "users", "email", query, direction, FALSE)

CursorDeleteAtCursor == \E c \in DOMAIN cursors : DeleteAtCursor(c, FALSE)

CursorUpdateAtCursor ==
  \E c \in DOMAIN cursors, value \in Values : UpdateAtCursor(c, value, FALSE)

CursorNext ==
  \/ CursorSeed
  \/ CursorOpenDb
  \/ CursorTransaction
  \/ CursorAdd
  \/ CursorDelete
  \/ CursorOpenCursor
  \/ CursorContinue
  \/ CursorAdvance
  \/ CursorDeleteAtCursor
  \/ CursorUpdateAtCursor
  \/ CursorPut
  \/ CursorClear
  \/ CursorIndexOpenCursor

CursorSpec == Init /\ [][CursorNext]_vars

\* --------------------------------------------- ScopeSpec: transaction scopes
\* A test script that seeds the databases "shop" and "users", each with a store
\* "users" of one row, opens "shop", creates stores, takes transactions over
\* any set of store names, and asks them for stores inside and outside
\* their scope to add, read and delete rows, and to open cursors that delete
\* and update.
NamesakeSchema(dbName) ==
  [name |-> dbName, version |-> 1,
   stores |-> <<[name |-> "users", keyPath |-> "id", autoIncrement |-> FALSE,
                 indexes |-> [x \in IndexNames |-> NoIndex],
                 data |-> <<SeedItem(1, [id |-> 1, email |-> Undefined])>>]>>]

ScopeSeed ==
  /\ conns = {}
  /\ \E dbName \in DbNames :
       ~databases[dbName].exists /\ SeedDatabase(NamesakeSchema(dbName))

ScopeOpenCursor ==
  \E t \in DOMAIN txs, storeName \in StoreNames :
    OpenCursor(t, storeName, Undefined, "next", FALSE)

ScopeDeleteAtCursor == \E c \in DOMAIN cursors : DeleteAtCursor(c, FALSE)

ScopeUpdateAtCursor ==
  \E c \in DOMAIN cursors : UpdateAtCursor(c, [id |-> 1, email |-> 1], FALSE)

ScopeOpen == conns = {} /\ Open("shop", 1, FALSE, FALSE)

ScopeCreateObjectStore ==
  \E conn \in conns, storeName \in StoreNames :
    CreateObjectStore(conn, storeName, "id", FALSE, FALSE)

ScopeTransaction ==
  \E conn \in conns, names \in SUBSET StoreNames, mode \in {"readonly", "readwrite"} :
    CreateTransaction(conn, names, mode, FALSE, FALSE)

ScopeObjectStore == \E t \in DOMAIN txs, storeName \in StoreNames : ObjectStore(t, storeName)

ScopeAdd ==
  \E t \in DOMAIN txs, storeName \in StoreNames, key \in Keys :
    Add(t, storeName, [id |-> key, email |-> Undefined], Undefined, FALSE, FALSE)

ScopeGet ==
  \E t \in DOMAIN txs, storeName \in StoreNames, key \in Keys :
    Get(t, storeName, key, FALSE)

ScopeDelete ==
  \E t \in DOMAIN txs, storeName \in StoreNames, key \in Keys :
    Delete(t, storeName, key, FALSE, FALSE)

ScopeRead ==
  \E t \in DOMAIN txs, storeName \in StoreNames,
     method \in {"getAll", "getAllKeys", "getKey", "count"} :
    Read(t, storeName, method, 1, NoLimit, FALSE)

ScopeNext ==
  \/ ScopeSeed
  \/ ScopeOpenCursor
  \/ ScopeDeleteAtCursor
  \/ ScopeUpdateAtCursor
  \/ ScopeRead
  \/ ScopeOpen
  \/ ScopeCreateObjectStore
  \/ ScopeTransaction
  \/ ScopeObjectStore
  \/ ScopeAdd
  \/ ScopeGet
  \/ ScopeDelete

ScopeSpec == Init /\ [][ScopeNext]_vars

\* --------------------------------------- KeySpec: keys that are objects
\* A test script that seeds "shop" with a store "users" of out-of-line keys and
\* an index "email" whose key path is the string 'email' or the array
\* ['email', 'id'], opens it, takes one transaction, and adds, puts, deletes
\* and reads rows under number keys and under Date keys, a `new Date(0)` for
\* each, and reads the index for numbers and dates.
KeySchema(keyPath, multiEntry) ==
  [name |-> "shop", version |-> 1,
   stores |-> <<[name |-> "users", keyPath |-> NullPath, autoIncrement |-> FALSE,
                 indexes |-> [x \in IndexNames |->
                   [present |-> TRUE, keyPath |-> keyPath, unique |-> FALSE,
                    multiEntry |-> multiEntry]],
                 data |-> <<>>]>>]

KeySeed ==
  /\ conns = {}
  /\ ~databases["shop"].exists
  /\ \E keyPath \in {StringPath("email"), ArrayPath(<<"email", "id">>)},
        multiEntry \in BOOLEAN :
       SeedDatabase(KeySchema(keyPath, multiEntry))

KeyOpen == conns = {} /\ databases["shop"].exists /\ Open("shop", 1, FALSE, FALSE)

KeyTransaction ==
  /\ txs = <<>>
  /\ \E conn \in conns : CreateTransaction(conn, {"users"}, "readwrite", FALSE, FALSE)

KeyAdd ==
  \E t \in DOMAIN txs, value \in [id : {Undefined, 1}, email : {1} \cup DateKeys],
     key \in {Undefined, 1} \cup DateKeys :
    Add(t, "users", value, key, FALSE, FALSE)

KeyPut ==
  \E t \in DOMAIN txs, value \in [id : {Undefined, 1}, email : {1} \cup DateKeys],
     key \in {Undefined, 1} \cup DateKeys :
    Put(t, "users", value, key, FALSE, FALSE)

KeyDelete ==
  \E t \in DOMAIN txs, key \in {1} \cup DateKeys : Delete(t, "users", key, FALSE, FALSE)

KeyGet == \E t \in DOMAIN txs, key \in {1} \cup DateKeys : Get(t, "users", key, FALSE)

KeyIndexRead ==
  \E t \in DOMAIN txs,
     method \in {"index.get", "index.getKey", "index.getAll", "index.getAllKeys", "index.count"},
     key \in {1} \cup DateKeys :
    IndexRead(t, "users", "email", method, key, NoLimit, FALSE)

KeyNext ==
  \/ KeySeed
  \/ KeyOpen
  \/ KeyTransaction
  \/ KeyAdd
  \/ KeyPut
  \/ KeyDelete
  \/ KeyGet
  \/ KeyIndexRead

KeySpec == Init /\ [][KeyNext]_vars

\* ------------------------------- LifeSpec: stores and databases come and go
\* A test script that seeds "shop" with an auto-increment store "users" keyed
\* by "id", opens it, deletes and creates the store and the database, and adds
\* rows without a key. No call of this script removes a single row.
\* "shop" with the array schema.stores naming the stores of order, one element
\* for each, all auto-increment and keyed by "id" with one row without key. A
\* name may come twice in the array
AutoSchema(order) ==
  [name |-> "shop", version |-> 1,
   stores |-> [i \in DOMAIN order |->
     [name |-> order[i], keyPath |-> "id", autoIncrement |-> TRUE,
      indexes |-> [x \in IndexNames |-> NoIndex],
      data |-> <<SeedItem(Undefined, [id |-> Undefined, email |-> Undefined])>>]]]

LifeSchemas ==
  {UsersSchema(TRUE, FALSE, data) : data \in SeedData}
    \cup {AutoSchema(order) : order \in {<<"users", "orders">>, <<"orders", "users">>,
                                          <<"users", "users">>,
                                          <<"users", "orders", "users">>}}

LifeSeed ==
  /\ txs = <<>>
  /\ \E schema \in LifeSchemas : SeedDatabase(schema)

LifeOpen == Open("shop", 1, FALSE, FALSE)

LifeDeleteDatabase == DeleteDatabase("shop", TRUE)

LifeDeleteObjectStore == \E conn \in conns : DeleteObjectStore(conn, "users")

LifeCreateObjectStore ==
  \E conn \in conns : CreateObjectStore(conn, "users", "id", TRUE, FALSE)

LifeTransaction ==
  /\ txs = <<>>
  /\ \E conn \in conns : CreateTransaction(conn, {"users"}, "readwrite", FALSE, FALSE)

LifeAdd ==
  \E t \in DOMAIN txs :
    /\ txs[t].mode = "readwrite"
    /\ Add(t, "users", [id |-> Undefined, email |-> Undefined], Undefined, FALSE, FALSE)

LifeGet ==
  \E t \in DOMAIN txs, key \in Keys :
    /\ txs[t].mode = "readwrite"
    /\ Get(t, "users", key, FALSE)

LifeNext ==
  \/ LifeSeed
  \/ LifeOpen
  \/ LifeDeleteDatabase
  \/ LifeDeleteObjectStore
  \/ LifeCreateObjectStore
  \/ LifeTransaction
  \/ LifeAdd
  \/ LifeGet
  \/ Return
  \/ FireTimer(FALSE)

LifeSpec == Init /\ [][LifeNext]_vars

\* ------------------------------------- UpgradeSpec: upgrades that go wrong
\* A test that opens "shop" with upgradeneeded and success handlers on every
\* request and a complete handler on the upgrade transaction; the upgrade
\* handler creates stores and returns, or raises.
UpgradeOpen == \E version \in 1..MaxVersion : Open("shop", version, TRUE, TRUE)

UpgradeCreateObjectStore ==
  /\ frame.kind = "upgradeneeded"
  /\ \E conn \in conns, storeName \in StoreNames :
       CreateObjectStore(conn, storeName, "id", FALSE, FALSE)

UpgradeNext ==
  \/ UpgradeOpen
  \/ UpgradeCreateObjectStore
  \/ Throw
  \/ Return
  \/ Turn

UpgradeSpec == Init /\ [][UpgradeNext]_vars

\* ------------------------------------------------------------------- claims
RequestEvent(e) == e.ev \in {"success", "error"} /\ reqs[e.id].kind = "op"

\* the turn in which the request or transaction of a handler call was created
BornOf(e) == IF e.ev \in {"complete", "abort"} THEN txs[e.id].born ELSE reqs[e.id].born

NotifiedBefore(r, i) == \E j \in 1..(i - 1) : RequestEvent(log[j]) /\ log[j].id = r

\* C1: a transaction's complete handler is called only after the handlers of
\* every request issued on it in the turn that created it have been called.
CommitAfterItsRequests ==
  \A i \in DOMAIN log :
    log[i].ev = "complete" =>
      \A r \in DOMAIN reqs :
        (/\ reqs[r].kind = "op"
         /\ reqs[r].tx = log[i].id
         /\ reqs[r].born = txs[log[i].id].born
         /\ reqs[r].onsuccess)
        => NotifiedBefore(r, i)

\* C2: the handlers of two requests issued on the same transaction are called in
\* the order the requests were issued, whether the requests succeeded or failed.
RequestsNotifiedInIssueOrder ==
  \A i \in DOMAIN log, j \in DOMAIN log :
    (/\ RequestEvent(log[i]) /\ RequestEvent(log[j])
     /\ reqs[log[i].id].tx # 0
     /\ reqs[log[i].id].tx = reqs[log[j].id].tx
     /\ log[i].id < log[j].id)
    => i < j

\* C2 witness: an earlier request has succeeded and been notified, and a later
\* request of the same transaction has failed and had its error handler called.
TwoRequestsNotified ==
  \E i \in DOMAIN log, j \in DOMAIN log :
    /\ RequestEvent(log[i]) /\ RequestEvent(log[j])
    /\ reqs[log[i].id].tx # 0
    /\ reqs[log[i].id].tx = reqs[log[j].id].tx
    /\ log[i].id < log[j].id
    /\ reqs[log[i].id].err = "none"
    /\ log[j].ev = "error"

\* C3: every handler call (success, error, upgradeneeded, complete, abort) is made
\* in a later turn than the one that created its request or transaction.
NotifiedInLaterTurn == \A i \in DOMAIN log : log[i].fired > BornOf(log[i])

\* C3 witness: a handler of each of the five kinds has been called.
EveryKindNotified ==
  \A ev \in {"success", "error", "upgradeneeded", "complete", "abort"} :
    \E i \in DOMAIN log : log[i].ev = ev

\* the rows of store s of database d
Rows(d, s) == DataOf(databases[d], s)

\* C4: after abort() of a transaction, every store in its scope holds the rows
\* it held when the transaction was created.
AbortRestoresStores ==
  last.op = "abort" =>
    \A s \in txs[last.key].scope :
      Rows(txs[last.key].db, s) = txs[last.key].snapshot[s].data

\* the rows of m, other than the row of primary key pk, whose value has k at path
Colliding(m, path, k, pk) ==
  {i \in DOMAIN m : m[i].k # pk /\ HasProp(m[i].v, path) /\ GetProp(m[i].v, path) = k}

\* C5: on a store with a unique index, an add or put of a value whose indexed
\* property equals that of a row with another primary key fails with
\* ConstraintError and leaves the rows of the store as they were.
UniqueIndexRejectsCollision ==
  \A x \in IndexNames :
    LET index == databases[last.db].storeSchemas[last.store].indexes[x]
        now == Rows(last.db, last.store)
    IN (/\ last.op \in {"add", "put"}
        /\ index.present /\ index.unique
        /\ last.found
        /\ Colliding(last.pre, IndexKeyPath(index.keyPath),
                     GetProp(last.val, IndexKeyPath(index.keyPath)), last.key) # {})
       => (last.err = "ConstraintError" /\ now = last.pre)

\* C7: the keys getAutoIncrementKey returns for one store are strictly
\* increasing, so none is returned twice, also after a delete or a clear.
AutoIncrementKeysIncrease ==
  \A i \in DOMAIN generated, j \in DOMAIN generated :
    (i < j /\ generated[i].db = generated[j].db /\ generated[i].store = generated[j].store)
    => generated[i].key < generated[j].key

\* C7 witness: a key was generated for a store after an earlier generated key of
\* that store had left the store (by delete or clear).
GeneratedAfterRemoval ==
  /\ last.op \in {"add", "put"}
  /\ \E i \in DOMAIN generated, j \in DOMAIN generated :
       /\ i < j
       /\ j = Len(generated)
       /\ generated[i].db = last.db /\ generated[i].store = last.store
       /\ generated[j].db = last.db /\ generated[j].store = last.store
       /\ generated[j].key = last.key
       /\ ~MapHas(last.pre, generated[i].key)

\* the time a date key holds: every one is a `new Date(0)`
TimeOf(key) == 0

\* the equality of keys of the specification: two dates are the same key when
\* they hold the same time, two numbers when they are the same number
KeyEqual(a, b) ==
  IF a \in DateKeys /\ b \in DateKeys THEN TimeOf(a) = TimeOf(b) ELSE a = b

\* C9: no two rows of a store have the same primary key.
PrimaryKeysUnique ==
  \A d \in DbNames, s \in StoreNames :
    \A i \in DOMAIN Rows(d, s), j \in DOMAIN Rows(d, s) :
      i # j => ~KeyEqual(Rows(d, s)[i].k, Rows(d, s)[j].k)

\* the key an index on keyPath holds for a row of this value is k: the value at
\* a string path; for an array path the key is the array of the values at its
\* names, which no number and no date equals
IsIndexKey(value, keyPath, k) ==
  /\ ~keyPath.isArray
  /\ HasProp(value, keyPath.names[1])
  /\ KeyEqual(GetProp(value, keyPath.names[1]), k)

\* a scan of the rows from scratch: the primary keys of the rows whose index key
\* is k
ScanForKey(m, keyPath, k) == {m[i].k : i \in {j \in DOMAIN m : IsIndexKey(m[j].v, keyPath, k)}}

SeqToSet(q) == {q[i] : i \in DOMAIN q}

\* C10: for every store, index and index key k, what the index reports for k
\* (getAllKeys, count, get) is what a scan of the store's rows yields.
IndexAgreesWithScan ==
  \A d \in DbNames, s \in StoreNames, x \in IndexNames, k \in (1..MaxEmail) \cup DateKeys :
    LET index == databases[d].storeSchemas[s].indexes[x]
        m == Rows(d, s)
        keys == IndexGetAllKeys(m, IndexKeyPath(index.keyPath), k, NoLimit)
        first == IndexFirst(m, IndexKeyPath(index.keyPath), k)
    IN index.present =>
         /\ SeqToSet(keys) = ScanForKey(m, index.keyPath, k)
         /\ Len(keys) = Cardinality(ScanForKey(m, index.keyPath, k))
         /\ IndexCount(m, IndexKeyPath(index.keyPath), k)
              = Cardinality(ScanForKey(m, index.keyPath, k))
         /\ (first = <<>>) = (ScanForKey(m, index.keyPath, k) = {})
         /\ first # <<>> => first[1].k \in ScanForKey(m, index.keyPath, k)

\* C6: an open of an existing database at a version below the stored one fails
\* with VersionError: its request carries the error, its success handler is not
\* called, and the stored version stays as it was.
OpenBelowStoredVersionFails ==
  (last.op = "open" /\ last.existed /\ last.version > last.key) =>
    /\ reqs[Len(reqs)].err = "VersionError"
    /\ ~\E i \in DOMAIN log : log[i].ev = "success" /\ log[i].id = Len(reqs)
    /\ databases[last.db].exists => databases[last.db].version = last.version

StrictlyIncreasing(q) == \A i \in DOMAIN q, j \in DOMAIN q : i < j => q[i] < q[j]

StrictlyDecreasing(q) == \A i \in DOMAIN q, j \in DOMAIN q : i < j => q[i] > q[j]

\* C8: the keys a cursor yields at open and on each continue() without argument
\* are strictly increasing for next/nextunique and strictly decreasing for
\* prev/prevunique, and the cursor is exhausted exactly when it has yielded
\* every key of the store.
CursorYieldsInKeyOrder ==
  \A c \in DOMAIN cursors :
    cursors[c].plain =>
      /\ IF Backward(cursors[c].direction)
         THEN StrictlyDecreasing(cursors[c].yielded)
         ELSE StrictlyIncreasing(cursors[c].yielded)
      /\ ~cursors[c].inRange => SeqToSet(cursors[c].yielded) = MapKeySet(cursors[c].entries)

\* the calls made on a store handle that a transaction gave, and on the cursors
\* it opened
StoreOps ==
  {"add", "put", "get", "getAll", "getAllKeys", "getKey", "count", "delete", "clear",
   "openCursor", "createIndex", "deleteIndex",
   "index.get", "index.getKey", "index.getAll", "index.getAllKeys", "index.count",
   "index.openCursor", "cursor.delete", "cursor.update"}

\* C11: transaction.objectStore(name) throws NotFoundError and gives no handle
\* exactly when name is outside the transaction's scope; every operation made
\* through a transaction is on a store of its scope, and leaves every store
\* that is not a store of its scope in its database as it was.
OnlyStoresInScope ==
  [][calls' # calls =>
       /\ last'.op = "objectStore" =>
            /\ last'.found <=> last'.store \in txs[last'.tx].scope
            /\ ~last'.found <=> last'.err = "NotFoundError"
       /\ last'.op \in StoreOps =>
            /\ last'.store \in txs[last'.tx].scope
            /\ \A d \in DbNames, n \in StoreNames :
                 (d # txs[last'.tx].db \/ n \notin txs[last'.tx].scope)
                 => databases'[d].stores[n] = databases[d].stores[n]]_vars

\* C12: an add whose resolved key is the primary key of a row of the store
\* fails with ConstraintError and leaves the rows of the store as they were.
AddRejectsExistingKey ==
  (/\ last.op = "add"
   /\ last.found
   /\ \E i \in DOMAIN last.pre : KeyEqual(last.pre[i].k, last.key))
  => (last.err = "ConstraintError" /\ Rows(last.db, last.store) = last.pre)

\* the key a put names: the key argument, else the value's property at the
\* store's key path
PutKey ==
  IF last.inKey # Undefined
  THEN last.inKey
  ELSE GetProp(last.inVal, databases[last.db].storeSchemas[last.store].keyPath)

\* C13: a put that names the key of an existing row, by argument or by the
\* value's property at the key path, stores the value under that key and leaves
\* the set of primary keys as it was, with or without auto-increment.
PutReplacesExistingRow ==
  (/\ last.op = "put"
   /\ last.existed
   /\ PutKey # Undefined
   /\ \E i \in DOMAIN last.pre : last.pre[i].k = PutKey)
  => /\ MapKeySet(Rows(last.db, last.store)) = MapKeySet(last.pre)
     /\ \E i \in DOMAIN Rows(last.db, last.store) :
          /\ Rows(last.db, last.store)[i].k = PutKey
          /\ Rows(last.db, last.store)[i].v = last.inVal

\* request r was created on transaction t before abort() was called on t
PendingAtAbort(r, t) ==
  /\ reqs[r].kind = "op"
  /\ reqs[r].tx = t
  /\ txs[t].error
  /\ r <= txs[t].abortedReqs

\* C14: once abort() was called on a transaction, a request that was pending
\* on it carries AbortError and its success handler is not called any more.
AbortFailsPendingRequests ==
  \A i \in DOMAIN log, t \in DOMAIN txs :
    (/\ log[i].ev = "success"
     /\ PendingAtAbort(log[i].id, t)
     /\ i > txs[t].abortedAt)
    => FALSE

\* what the last call was to do is in the registry: the written row can be
\* read, the deleted row is gone, the created store is in the catalog, and a
\* get returns the row the store holds
EffectVisible ==
  LET rows == Rows(last.db, last.store)
  IN /\ (last.op \in {"add", "put"} /\ last.err = "none") =>
          /\ databases[last.db].stores[last.store].present
          /\ MapHas(rows, last.key)
          /\ MapGetOr(rows, last.key, NoLast.val) = last.val
     /\ (last.op = "delete" /\ last.existed) => ~MapHas(rows, last.key)
     /\ (last.op = "clear" /\ last.existed) => rows = <<>>
     /\ (last.op = "createObjectStore" /\ last.existed) =>
          /\ databases[last.db].stores[last.store].present
          /\ databases[last.db].storeSchemas[last.store].present
     /\ last.op = "get" =>
          /\ last.found <=> MapHas(rows, last.key)
          /\ last.val = MapGetOr(rows, last.key, NoLast.val)

\* C15: every call applies its effect on the rows and the catalog before it
\* returns, in the turn of the call and before any handler is called, so that
\* a read made right after it sees the effect.
EffectsAppliedAtTheCall ==
  [][calls' # calls => (log' = log /\ turn' = turn /\ EffectVisible')]_vars

\* C15 witness: a get finds a row that no seed data holds, in the turn that
\* wrote it, before any handler was called.
ReadSeesWriteOfSameTurn ==
  /\ last.op = "get"
  /\ last.found
  /\ last.val = [id |-> 2, email |-> Undefined]
  /\ log = <<>>
  /\ \A r \in DOMAIN reqs : reqs[r].born = turn

\* C16: the upgradeneeded event of open(name, w) reports as old version the
\* version stored when open was called (0 when there was no database) and as
\* new version w.
UpgradeReportsVersions ==
  \A i \in DOMAIN log :
    log[i].ev = "upgradeneeded" =>
      /\ log[i].oldVersion = reqs[log[i].id].versionBefore
      /\ log[i].newVersion = reqs[log[i].id].version

\* the transaction mockOpen created for the upgradeneeded event log[j]
UpgradeTransactionOf(t, j) ==
  /\ txs[t].mode = "versionchange"
  /\ txs[t].scope = {}
  /\ txs[t].born = log[j].fired

\* C17: when an open fires upgradeneeded, the complete handler of its
\* versionchange transaction is called after the upgradeneeded handler and
\* before the success handler of the open request.
UpgradeCommitsBeforeOpenSucceeds ==
  \A i \in DOMAIN log, j \in DOMAIN log :
    (/\ j < i
     /\ log[j].ev = "upgradeneeded"
     /\ log[i].ev = "success"
     /\ log[i].id = log[j].id
     /\ reqs[log[i].id].kind = "open")
    => \E k \in (j + 1)..(i - 1) :
         /\ log[k].ev = "complete"
         /\ UpgradeTransactionOf(log[k].id, j)

\* C18: no versionchange transaction is created on a database while an earlier
\* versionchange transaction on it is still active, that is, in the turn that
\* created the earlier one and without an abort() of it.
OneVersionChangeAtATime ==
  \A t1 \in DOMAIN txs, t2 \in DOMAIN txs :
    (/\ t1 < t2
     /\ txs[t1].mode = "versionchange"
     /\ txs[t2].mode = "versionchange"
     /\ txs[t1].db = txs[t2].db
     /\ txs[t1].born = txs[t2].born)
    => txs[t1].error

\* C19: createObjectStore, deleteObjectStore, createIndex and deleteIndex made
\* outside an upgradeneeded handler (and not through a versionchange
\* transaction) leave the catalog as it was, and no operation of a readonly or
\* readwrite transaction changes the set of stores.
CatalogChangesOnlyInUpgrade ==
  /\ (last.op \in {"createObjectStore", "deleteObjectStore"} /\ last.during # "upgradeneeded")
       => Catalog(databases[last.db]) = last.catalog
  /\ (/\ last.op \in {"createIndex", "deleteIndex"}
      /\ last.during # "upgradeneeded"
      /\ txs[last.tx].mode # "versionchange")
       => Catalog(databases[last.db]) = last.catalog
  /\ (/\ last.op \in {"add", "put", "get", "delete", "clear"}
      /\ txs[last.tx].mode \in {"readonly", "readwrite"})
       => Catalog(databases[last.db]).stores = last.catalog.stores

\* request r of transaction t failed with no error handler to acknowledge the
\* failure
FailedUnhandled(r, t) ==
  /\ reqs[r].kind = "op"
  /\ reqs[r].tx = t
  /\ reqs[r].err # "none"
  /\ ~reqs[r].onerror

\* C20: the complete handler of a readonly or readwrite transaction is not
\* called after a request of it has failed unhandled in an earlier turn: the
\* transaction aborts instead.
UnhandledFailureAborts ==
  \A i \in DOMAIN log :
    (log[i].ev = "complete" /\ txs[log[i].id].mode \in {"readonly", "readwrite"})
    => ~\E r \in DOMAIN reqs :
          FailedUnhandled(r, log[i].id) /\ reqs[r].born < log[i].fired

\* C21: an operation made through a transaction on which abort() was called
\* before fails with InvalidStateError and leaves the rows and the catalog as
\* they were.
EndedTransactionRefusesOperations ==
  (/\ last.op \in {"add", "put", "delete", "clear"}
   /\ last.existed
   /\ txs[last.tx].error)
  => /\ last.err = "InvalidStateError"
     /\ Rows(last.db, last.store) = last.pre
     /\ Catalog(databases[last.db]) = last.catalog

\* C22: an add or put with no key argument, on a store without auto-increment,
\* whose value has no property at the store's key path (or whose store has no
\* key path) fails with DataError, leaves the primary keys of the store as they
\* were, and no row has an undefined key.
UnresolvedKeyIsDataError ==
  LET schema == databases[last.db].storeSchemas[last.store]
  IN (/\ last.op \in {"add", "put"}
      /\ last.existed
      /\ last.inKey = Undefined
      /\ ~schema.autoIncrement
      /\ ~HasProp(last.inVal, schema.keyPath))
     => /\ last.err = "DataError"
        /\ MapKeySet(Rows(last.db, last.store)) = MapKeySet(last.pre)
        /\ Undefined \notin MapKeySet(Rows(last.db, last.store))

\* C23: delete(key), and delete of the key range from key to key, remove the
\* row with that primary key and leave every other row of the store as it was.
DeleteRemovesOnlyMatchingRows ==
  (last.op = "delete" /\ last.existed)
  => Rows(last.db, last.store) = SelectSeq(last.pre, LAMBDA e : e.k # last.inKey)

\* C24: cursor.delete() removes the row under the cursor from the cursor's store
\* in its database, as delete(currentKey) does, and cursor.update(value) writes
\* value there under the current key, as put(value, currentKey) does.
CursorWritesItsRecord ==
  /\ (last.op = "cursor.delete" /\ last.found)
     => Rows(last.db, last.store) = MapDelete(last.pre, last.key)
  /\ (last.op = "cursor.update" /\ last.found)
     => Rows(last.db, last.store) = MapSet(last.pre, last.key, last.inVal)

\* C25: after an open of an existing database its stored version is not below
\* the one stored before the call, and it is above it only once the
\* upgradeneeded event of that open has been delivered.
StoredVersionRaisedOnlyByUpgrade ==
  (last.op = "open" /\ last.existed /\ databases[last.db].exists)
  => /\ databases[last.db].version >= last.version
     /\ databases[last.db].version > last.version
        => \E i \in DOMAIN log : log[i].ev = "upgradeneeded" /\ log[i].id = Len(reqs)

\* C26: once deleteDatabase(name) has returned the database is not registered,
\* is not listed by databases(), and has no store and no row; a database that
\* open creates afterwards has no store and no row; and the success handler of
\* the delete request is called in a later turn than the call.
DeletedDatabaseIsGone ==
  /\ last.op = "deleteDatabase"
     => /\ ~databases[last.db].exists
        /\ \A e \in ListDatabases : e.name # last.db
        /\ Catalog(databases[last.db]).stores = {}
        /\ \A n \in StoreNames : Rows(last.db, n) = <<>>
  /\ (last.op = "open" /\ ~last.existed)
     => /\ Catalog(databases[last.db]).stores = {}
        /\ \A n \in StoreNames : Rows(last.db, n) = <<>>
  /\ (last.op = "get" /\ ~last.existed) => ~last.found
  /\ \A i \in DOMAIN log :
       (log[i].ev = "success" /\ reqs[log[i].id].kind = "deleteDatabase")
       => log[i].fired > reqs[log[i].id].born

\* a database holding rows was deleted and the success handler of the request
\* has been called
DeletedDatabaseWithRows ==
  /\ last.op = "deleteDatabase"
  /\ last.existed
  /\ last.found
  /\ \E i \in DOMAIN log : log[i].ev = "success" /\ reqs[log[i].id].kind = "deleteDatabase"

\* C27: a store newly created with auto-increment and a key path gives key 1 to
\* its first add without a key, also when a store or database of that name was
\* deleted before: right after createObjectStore made a store that was not
\* there, the key the next add without a key is given is 1; and an add without
\* a key into such a store that has held no row yet stores key 1 and writes 1
\* at the key path of the value.
NewStoreCountsFromOne ==
  LET schema == databases[last.db].storeSchemas[last.store]
      first == ResolveAddKey(schema.keyPath, schema.autoIncrement, NoLast.val, Undefined,
                             CounterOf(autoIncrementCounters, last.db, last.store))
  IN /\ (/\ last.op = "createObjectStore"
         /\ last.existed
         /\ last.store \notin last.catalog.stores
         /\ schema.autoIncrement
         /\ schema.keyPath # NullPath)
        => first.key = 1 /\ GetProp(first.value, schema.keyPath) = 1
     /\ (/\ last.op = "add"
         /\ last.err = "none"
         /\ last.inKey = Undefined
         /\ schema.autoIncrement
         /\ schema.keyPath # NullPath
         /\ last.pre = <<>>)
        => last.key = 1 /\ GetProp(last.val, schema.keyPath) = 1

\* C28: when the upgrade handler of an open request has raised, then once every
\* timer has run the upgrade transaction is aborted, the request has been given
\* an error event, and it has been given no success event.
UpgradeErrorFailsOpen ==
  \A r \in DOMAIN reqs :
    (reqs[r].threw /\ timers = <<>> /\ ~Running)
    => /\ \E i \in DOMAIN log : log[i].ev = "error" /\ log[i].id = r
       /\ ~\E i \in DOMAIN log : log[i].ev = "success" /\ log[i].id = r
       /\ \A j \in DOMAIN log, t \in DOMAIN txs :
            (log[j].ev = "upgradeneeded" /\ log[j].id = r /\ UpgradeTransactionOf(t, j))
            => txs[t].error

\* C29: a transaction is given at most one of the complete and abort events,
\* and at most once.
OneTerminalNotification ==
  \A t \in DOMAIN txs :
    Cardinality({i \in DOMAIN log : log[i].ev \in {"complete", "abort"} /\ log[i].id = t}) <= 1

\* C30: a request of a store operation is given at most one event; one that
\* holds an error is given no success event, and has been given its error event
\* once every timer has run if it has an error handler; one that holds no error
\* is given no error event.
OneOutcomePerRequest ==
  \A r \in DOMAIN reqs :
    reqs[r].kind = "op"
    => /\ Cardinality({i \in DOMAIN log : RequestEvent(log[i]) /\ log[i].id = r}) <= 1
       /\ reqs[r].err # "none"
          => /\ ~\E i \in DOMAIN log : log[i].ev = "success" /\ log[i].id = r
             /\ (reqs[r].onerror /\ timers = <<>> /\ ~Running)
                => \E i \in DOMAIN log : log[i].ev = "error" /\ log[i].id = r
       /\ reqs[r].err = "none"
          => ~\E i \in DOMAIN log : log[i].ev = "error" /\ log[i].id = r

\* C31: when an operation is issued on a transaction from inside the handler of
\* an earlier request of that transaction, the transaction has not been given
\* its complete event yet, and it is given it only after the event of the new
\* request.
OperationInHandlerKeepsTransactionActive ==
  \A r \in DOMAIN reqs :
    LET t == reqs[r].tx
        by == reqs[r].by
    IN (/\ reqs[r].kind = "op"
        /\ t > 0
        /\ by > 0
        /\ RequestEvent(log[by])
        /\ reqs[log[by].id].tx = t
        /\ reqs[r].onsuccess)
       => \A i \in DOMAIN log :
            (log[i].ev = "complete" /\ log[i].id = t)
            => /\ i > by
               /\ \E j \in DOMAIN log : j < i /\ RequestEvent(log[j]) /\ log[j].id = r

\* C32: a key generated by an auto-increment store for an add or put without a
\* key is the key of no row of the store at that moment, and such an add does
\* not fail with ConstraintError.
GeneratedKeyIsUnused ==
  LET schema == databases[last.db].storeSchemas[last.store]
  IN (/\ last.op \in {"add", "put"}
      /\ last.existed
      /\ last.inKey = Undefined
      /\ schema.autoIncrement
      /\ last.op = "put" => ~MapHas(last.pre, Undefined))
     => /\ ~MapHas(last.pre, last.key)
        /\ last.err # "ConstraintError"

\* C33: on an auto-increment store with a key path, an add without a key of a
\* value that has a key at the key path stores the value as given under that
\* key.
AddKeepsKeyOfValue ==
  LET schema == databases[last.db].storeSchemas[last.store]
  IN (/\ last.op = "add"
      /\ last.existed
      /\ last.inKey = Undefined
      /\ schema.autoIncrement
      /\ HasProp(last.inVal, schema.keyPath))
     => /\ last.key = GetProp(last.inVal, schema.keyPath)
        /\ last.val = last.inVal
        /\ last.err = "none"
           => MapGetOr(Rows(last.db, last.store), last.key, NoLast.val) = last.inVal

\* C34: openCursor(key, direction) on a store gives a cursor on the row with
\* that key when the store has one, and no cursor when it has none, also when
\* the store holds other rows.
CursorOpensWithinRange ==
  (last.op = "openCursor" /\ last.inKey # Undefined)
  => IF MapHas(last.pre, last.inKey)
     THEN /\ last.found
          /\ cursors[last.cursor].inRange
          /\ cursors[last.cursor].key = last.inKey
     ELSE ~last.found

\* the keys of the entries of a cursor at or past key in its direction
AtOrPast(cur, key) ==
  {k \in MapKeySet(cur.entries) : IF Backward(cur.direction) THEN k <= key ELSE k >= key}

\* the first of a non-empty set of keys in the direction of a cursor
FirstInDirection(cur, keys) ==
  CHOOSE k \in keys :
    \A other \in keys : IF Backward(cur.direction) THEN other <= k ELSE other >= k

\* C35: continue(key), with key past the key the cursor is on, leaves the
\* cursor on the first entry, in its direction, whose key is at or past key,
\* and exhausted exactly when it has no such entry.
ContinueSeeksAtOrPastKey ==
  LET cur == cursors[last.cursor]
      was == cur.entries[last.wasIndex + 1].k
  IN (/\ last.op = "continue"
      /\ last.key # Undefined
      /\ last.wasInRange
      /\ IF Backward(cur.direction) THEN last.key < was ELSE last.key > was)
     => IF AtOrPast(cur, last.key) = {}
        THEN ~cur.inRange
        ELSE cur.inRange /\ cur.key = FirstInDirection(cur, AtOrPast(cur, last.key))

\* C36: a continue or advance call leaves the cursor on an entry that comes, in
\* the order it walks its entries, after the one it was on, or exhausted; and an
\* exhausted cursor stays exhausted.
CursorNeverMovesBack ==
  last.op \in {"continue", "advance"}
  => LET cur == cursors[last.cursor]
     IN /\ ~last.wasInRange => ~cur.inRange
        /\ (last.wasInRange /\ cur.inRange)
           => IF Backward(cur.direction)
              THEN cur.currentIndex < last.wasIndex
              ELSE cur.currentIndex > last.wasIndex

\* a call that writes to a store through a store handle
StoreWrite(op) == op \in {"add", "put", "delete", "clear"}

\* C37: the entries of a cursor are the rows its store holds when openCursor is
\* called and are the same ever after; a write to the store leaves every cursor
\* as it was; and the key a cursor reports and whether it is exhausted are
\* those of its entries at its position, not of the store.
CursorEntriesFixedAtOpen ==
  [][\A c \in DOMAIN cursors' :
       /\ c \notin DOMAIN cursors
          => cursors'[c].entries = DataOf(databases[cursors'[c].db], cursors'[c].store)
       /\ c \in DOMAIN cursors
          => /\ cursors'[c].entries = cursors[c].entries
             /\ (calls' # calls /\ StoreWrite(last'.op)) => cursors'[c] = cursors[c]
       /\ cursors'[c].inRange
          <=> (cursors'[c].currentIndex >= 0
               /\ cursors'[c].currentIndex < Len(cursors'[c].entries))
       /\ cursors'[c].inRange
          => cursors'[c].key = cursors'[c].entries[cursors'[c].currentIndex + 1].k]_vars

\* a cursor moved by continue() after a write took the row it now yields out of
\* its store
CursorYieldsRemovedRow ==
  /\ last.op = "continue"
  /\ last.key = Undefined
  /\ cursors[last.cursor].inRange
  /\ ~MapHas(Rows(cursors[last.cursor].db, cursors[last.cursor].store),
             cursors[last.cursor].key)

\* C38: at the step that calls the success handler of an open request, the
\* database of the request is registered and its stored version is the version
\* of the connection the request delivers.
OpenSuccessSeesItsDatabase ==
  [][(/\ Len(log') = Len(log) + 1
      /\ log'[Len(log')].ev = "success"
      /\ reqs[log'[Len(log')].id].kind = "open")
     => LET r == reqs[log'[Len(log')].id]
        IN /\ databases'[r.db].exists
           /\ databases'[r.db].version = r.version]_vars

\* C39: add, put, delete and clear issued through a store handle of a readonly
\* transaction leave the rows of the store as they were.
ReadonlyNeverWrites ==
  (/\ StoreWrite(last.op)
   /\ last.tx \in DOMAIN txs
   /\ txs[last.tx].mode = "readonly")
  => Rows(last.db, last.store) = last.pre

\* the names of the stores in the array schema.stores
SchemaStoreNames(schema) == {schema.stores[i].name : i \in DOMAIN schema.stores}

\* C40: a seedDatabase call that follows a seedDatabase call with the same
\* schema leaves the version, the catalog and the primary keys of every store
\* as the first call left them; and after any seedDatabase call the database
\* has no store that the schema does not name.
SeedTwiceIsSeedOnce ==
  [][(last'.op = "seedDatabase" /\ calls' # calls)
     => /\ \A n \in StoreNames :
             n \notin SchemaStoreNames(last'.schema) => ~databases'[last'.db].stores[n].present
        /\ (last.op = "seedDatabase" /\ last.schema = last'.schema)
           => /\ databases'[last'.db].version = databases[last.db].version
              /\ Catalog(databases'[last'.db]) = Catalog(databases[last.db])
              /\ \A n \in StoreNames :
                   MapKeySet(DataOf(databases'[last'.db], n))
                     = MapKeySet(DataOf(databases[last.db], n))]_vars

====
